---- MODULE Spec2Model ----
(***************************************************************************)
(* A verification model of trillian-tessera:                               *)
(*   - storage.Queue  (dedup + batching queue in front of a FlushFunc)     *)
(*   - tessera.Migrate (entry bundle copier)                               *)
(***************************************************************************)
EXTENDS Integers, Sequences, FiniteSets, TLC

\* ------------------------------------------------------------------------
\* Bounds of the model
\* ------------------------------------------------------------------------
\* Number of distinct entry identities that callers submit.
NumIds == 5
\* Total number of queueItems that Add calls may create in one behaviour.
MaxItems == 3
\* The same, in the specification that fills the work channel (WideSpec).
WideItems == 4
\* The same, in the specification with callers of the futures (FutureSpec).
FutureItems == 2
\* The same, in the specification of the queue under load (BulkSpec).
BulkItems == 5
\* The calls of one future are counted up to this number.
MaxCalls == 2
\* Number of worker goroutines Migrate is asked for, at most.
MaxWorkers == 2
\* Number of entry bundles of the largest log.
MaxBundles == 4
\* Number of Add calls that may be inside q.buf.Push at the same time.
MaxCallers == 2
\* The maxSize argument of NewQueue (buffer.WithSize).
maxSize == 2
\* The largest tree level the layout functions are called with.
MaxLevel == 63
\* partialTileSize is also called with the levels high * 2^61 + level, for
\* high up to MaxHigh and level up to MaxLevel.
MaxHigh == 1
\* The largest level and index in the path of a tile request.
MaxPath == 1
\* The number of fetchers or writers of a round-robin client, at most.
MaxBackends == 3
\* The number of calls of next() in one behaviour, at most.
MaxNextCalls == 6
\* The indices and sizes they are called with lie around the multiples
\* 1..MaxMult of 1, 256 and 256^2.
MaxMult == 2

\* Capacity of the work channel: make(chan []*queueItem, 1).
WorkCap == 1
\* Capacity of a queueItem's channel: make(chan tessera.IndexFuture, 1).
ItemChanCap == 1
\* retry.Attempts(10)
Attempts == 10

Ids == 1..NumIds
None == 0
NoIndex == -1
Nil == "nil"
\* Errors a FlushFunc may return.
ErrFlush == "ErrFlush"
\* ctx.Err() once the context is cancelled.
Canceled == "context canceled"
\* The error buffer.Push returns when the buffer does not take the item.
ErrTimeout == "ErrTimeout"
\* What a future call yields when it panics.
Panic == <<NoIndex, "panic">>
NoSquash == [id |-> None, item |-> None, isKnown |-> FALSE]

VARIABLES
    \* --- Queue ---
    items,       \* every queueItem created so far, in creation order
    inFlight,    \* q.inFlight: identity -> queueItem (None: no entry)
    mu,          \* q.inFlightMu: "free" or its holder
    pushing,     \* items whose Add call is inside q.buf.Push
    buf,         \* the buffer's pending items, in Push order
    bufPc,       \* the buffer's goroutine: "recv" (taking pushes) or "flush" (inside toWork)
    work,        \* the work channel
    wpc,         \* the worker goroutine: "select", "flush", "notify", "exited"
    cur,         \* the batch doFlush is working on
    werr,        \* what q.flush returned for cur
    wi,          \* doFlush's position in its notify loop
    cancelled,   \* ctx.Done() is closed
    nextIndex,   \* the FlushFunc's next free log index
    panicked,    \* a goroutine panicked (send on a closed channel)
    \* --- history ---
    flushed,     \* the batches passed to q.flush so far, with their result
    addedBefore, \* per item: the items whose Add had returned when it was created
    seen,        \* per item: the calls of its future: how many (up to MaxCalls), the
                 \* values they returned, how often they received from the channel
    lastSquash   \* what squashDupes returned, when this step was an Add

qvars == <<items, inFlight, mu, pushing, buf, bufPc, work, wpc, cur, werr, wi,
           cancelled, nextIndex, panicked, flushed, addedBefore, seen, lastSquash>>

VARIABLES
    \* --- Migrate ---
    numWorkers,  \* Migrate's numWorkers argument
    sourceSize,  \* Migrate's sourceSize argument
    sourceRoot,  \* Migrate's sourceRoot argument
    mpc,         \* Migrate itself: "init", "wait" (in eg.Wait), "returned"
    mret,        \* what Migrate returned
    targetSize,  \* what storage.IntegratedSize returned at the start (SizeFailed: an error)
    pleft,       \* populateWork: the bundles it has still to send
    ppc,         \* populateWork: "off", "send", "closed"
    todo,        \* the todo channel
    wst,         \* per worker: "off", "range", "try" (before getEntries),
                 \* "store" (before SetEntryBundle), "done", "failed"
    wb,          \* per worker: the bundle it is copying
    watt,        \* per worker: the number of the attempt retry.Do is at
    await,       \* the AwaitIntegration goroutine: "off", "wait", "done", "failed"
    root,        \* the root AwaitIntegration returned
    stored,      \* per bundle index: the partial it was last stored with (NotStored: never)
    bundlesMigrated, \* m.bundlesMigrated
    calls,       \* the operations of the source and the storage called so far
    integrated,  \* the storage: the integrated size of the local tree
    \* --- history ---
    sent,        \* the bundles populateWork has put on the todo channel, in order
    took,        \* per worker: the indices of the bundles it received from todo
    erred,       \* a getEntries or SetEntryBundle call has returned an error
    wlast,       \* per worker: the kind of the error its last failed attempt
                 \* returned ("none": no attempt of this retry.Do has failed)
    mcancelled,  \* Migrate's ctx is cancelled
    spc,         \* the goroutine that prints the stats: "off", "loop", "returned"
    bundlesToMigrate \* its local bundlesToMigrate (0 before it runs)

mvars == <<numWorkers, sourceSize, sourceRoot, mpc, mret, targetSize, pleft, ppc,
           todo, wst, wb, watt, await, root, stored, bundlesMigrated, calls,
           integrated, sent, took, erred, wlast, mcancelled, spc, bundlesToMigrate>>

VARIABLES
    \* --- layout: one call of a function of the package ---
    lpc,         \* "call" (not yet called), "partialTileSize", "NodeCoordsToTileAddress"
    lLevel,      \* the level argument, below 2^61
    lHigh,       \* what is added to it in multiples of 2^61 (partialTileSize only)
    lIndex,      \* the index argument
    lSize,       \* the logSize argument
    lOut         \* what the call returned

lvars == <<lpc, lLevel, lHigh, lIndex, lSize, lOut>>

VARIABLES
    \* --- the HTTP handlers of the conformance server ---
    hpc,         \* the handler that answered last ("idle": none yet)
    hreq,        \* the request it was given
    hres,        \* what the storage returned to it
    hresp        \* the response it wrote

hvars == <<hpc, hreq, hres, hresp>>

VARIABLES
    \* --- roundRobinFetcher / roundRobinLeafWriter ---
    rrKind,      \* which of the two it is
    rrLen,       \* len(rr.f) / len(rr.ws)
    rrIdx,       \* rr.idx
    rrMu,        \* rr.Mutex: None or the caller that holds it
    rrPc,        \* per caller: its position in next()
    rrF,         \* per caller: its local f
    \* --- history ---
    rrLog        \* the backends chosen so far, in the order they were read

rvars == <<rrKind, rrLen, rrIdx, rrMu, rrPc, rrF, rrLog>>

VARIABLES
    \* --- httpLeafWriter.Write of the hammer ---
    cpc,         \* "idle" (not called yet), "Write" (it has returned)
    cresp,       \* the response hc.Do returned, and where it came from
    cout         \* what Write returned: the index and the error

cvars == <<cpc, cresp, cout>>

vars == <<qvars, mvars, lvars, hvars, rvars, cvars>>
nonQueue == <<mvars, lvars, hvars, rvars, cvars>>
nonMigrate == <<qvars, lvars, hvars, rvars, cvars>>
nonLayout == <<qvars, mvars, hvars, rvars, cvars>>
nonHttp == <<qvars, mvars, lvars, rvars, cvars>>
nonRR == <<qvars, mvars, lvars, hvars, cvars>>
nonHttpClient == <<qvars, mvars, lvars, rvars>>
nonClient == <<qvars, mvars, lvars, hvars, rvars>>

\* The callers of next().
Callers == 1..MaxCallers
NoRequest == [handler |-> "none"]
NoResult == [err |-> FALSE, data |-> "not called"]
NoResponse == [status |-> 0, header |-> {}, body |-> <<>>]

\* No function of the layout package is being called.
LayoutIdle ==
    /\ lpc = "off"
    /\ lLevel = 0
    /\ lHigh = 0
    /\ lIndex = 0
    /\ lSize = 0
    /\ lOut = <<>>

\* The server has not had a request.
HttpIdle ==
    /\ hpc = "idle"
    /\ hreq = NoRequest
    /\ hres = NoResult
    /\ hresp = NoResponse

\* No round-robin client in use.
RRIdle ==
    /\ rrKind = "none"
    /\ rrLen = 1
    /\ rrIdx = 0
    /\ rrMu = None
    /\ rrPc = [c \in Callers |-> "off"]
    /\ rrF = [c \in Callers |-> None]
    /\ rrLog = <<>>

\* None of the other components is in use.
\* Write has not been called.
NoReply == [from |-> "none", status |-> 0, method |-> "none", body |-> <<>>]
NoReturn == [index |-> 0, err |-> "not called"]

ClientIdle ==
    /\ cpc = "idle"
    /\ cresp = NoReply
    /\ cout = NoReturn

OthersIdle == LayoutIdle /\ HttpIdle /\ RRIdle /\ ClientIdle

\* ------------------------------------------------------------------------
\* queueItem
\* ------------------------------------------------------------------------
\* newEntry: a fresh queueItem for an entry with identity k.  c is the
\* channel, once the state of sync.OnceValues (<<>>: not run yet).
newEntry(k) ==
    [id |-> k, index |-> NoIndex, c |-> <<>>, closed |-> FALSE, once |-> <<>>]

\* Variant: the func without the check that the entry has an index.
indexFuncNoCheck(it, err) ==
    IF err # Nil THEN <<0, err>>
    ELSE IF it.index = NoIndex THEN <<0, Nil>>
    ELSE <<it.index, Nil>>

\* Variant: the func returns the zero index instead of *e.entry.Index().
indexFuncZero(it, err) == IF err # Nil THEN <<0, err>> ELSE <<0, Nil>>

\* The func notify sends on e.c, called by the future: (index, error).
indexFunc(it, err) ==
    IF err # Nil THEN <<0, err>>
    ELSE IF it.index = NoIndex THEN Panic
    ELSE <<it.index, Nil>>

\* queueItem.notify: e.c <- func; close(e.c).
notify(it, err) == [it EXCEPT !.c = Append(@, err), !.closed = TRUE]

\* notify applied to item i of the items; a send on a closed channel panics.
Notified(i, err) ==
    IF items[i].closed
    THEN /\ panicked' = TRUE
         /\ UNCHANGED items
    ELSE /\ Len(items[i].c) < ItemChanCap
         /\ items' = [items EXCEPT ![i] = notify(@, err)]
         /\ UNCHANGED panicked

\* One call of the future e.f = sync.OnceValues(func() { return (<-e.c)() }):
\* the value it returns, and the item afterwards.  Blocks (is not enabled)
\* while the channel is empty and open.
FutureReady(it) == it.once # <<>> \/ it.c # <<>> \/ it.closed

FutureValue(it) ==
    IF it.once # <<>> THEN it.once[1]
    ELSE IF it.c # <<>> THEN indexFunc(it, Head(it.c))
    ELSE Panic

\* Variant: the future without sync.OnceValues, receiving on every call.
FutureCalledNoOnce(it) == IF it.c # <<>> THEN [it EXCEPT !.c = Tail(@)] ELSE it

FutureCalled(it) ==
    IF it.once # <<>> THEN it
    ELSE IF it.c # <<>> THEN [it EXCEPT !.c = Tail(@), !.once = <<indexFunc(it, Head(it.c))>>]
    ELSE [it EXCEPT !.once = <<Panic>>]

\* Whether this call of the future receives from the channel.
FutureReceives(it) == it.once = <<>>

\* ------------------------------------------------------------------------
\* Queue
\* ------------------------------------------------------------------------
\* NewQueue
QueueInit ==
    /\ items = <<>>
    /\ inFlight = [k \in Ids |-> None]
    /\ mu = "free"
    /\ pushing = {}
    /\ buf = <<>>
    /\ bufPc = "recv"
    /\ work = <<>>
    /\ wpc = "select"
    /\ cur = <<>>
    /\ werr = Nil
    /\ wi = 0
    /\ cancelled = FALSE
    /\ nextIndex = 0
    /\ panicked = FALSE
    /\ flushed = <<>>
    /\ addedBefore = <<>>
    /\ seen = <<>>
    /\ lastSquash = NoSquash

\* Variant: squashDupes without the map lookup.
squashDupesNoLookup(k) ==
    /\ mu = "free"
    /\ items' = Append(items, newEntry(k))
    /\ inFlight' = [inFlight EXCEPT ![k] = Len(items) + 1]
    /\ lastSquash' = [id |-> k, item |-> Len(items) + 1, isKnown |-> FALSE]
    /\ pushing' = pushing \cup {Len(items) + 1}
    /\ addedBefore' = Append(addedBefore, (1..Len(items)) \ pushing)
    /\ seen' = Append(seen, [calls |-> 0, vals |-> {}, recvs |-> 0])

\* squashDupes(e), under q.inFlightMu, for an entry with identity k.
squashDupes(k) ==
    /\ mu = "free"
    /\ IF inFlight[k] # None
       THEN /\ lastSquash' = [id |-> k, item |-> inFlight[k], isKnown |-> TRUE]
            /\ UNCHANGED <<items, inFlight, pushing, addedBefore, seen>>
       ELSE /\ items' = Append(items, newEntry(k))
            /\ inFlight' = [inFlight EXCEPT ![k] = Len(items) + 1]
            /\ lastSquash' = [id |-> k, item |-> Len(items) + 1, isKnown |-> FALSE]
            /\ pushing' = pushing \cup {Len(items) + 1}
            /\ addedBefore' = Append(addedBefore, (1..Len(items)) \ pushing)
            /\ seen' = Append(seen, [calls |-> 0, vals |-> {}, recvs |-> 0])

\* Add, up to its call of q.buf.Push: a dupe returns entry.f at once.
Add(k) ==
    /\ squashDupes(k)
    /\ UNCHANGED nonQueue
    /\ UNCHANGED <<mu, buf, bufPc, work, wpc, cur, werr, wi, cancelled, nextIndex,
                   panicked, flushed>>

\* Variant: the buffer puts the pushed item in front.
bufPrepend(b, i) == <<i>> \o b

\* The buffer takes the pushed item: items[count] = item; count++;
\* mustFlush = count >= len(items).
bufAppend(b, i) == Append(b, i)

\* Add's q.buf.Push(entry) returns nil: the buffer's goroutine received it.
Push(i) ==
    /\ i \in pushing
    /\ bufPc = "recv"
    /\ buf' = bufAppend(buf, i)
    /\ bufPc' = IF Len(buf') >= maxSize THEN "flush" ELSE "recv"
    /\ pushing' = pushing \ {i}
    /\ lastSquash' = NoSquash
    /\ UNCHANGED nonQueue
    /\ UNCHANGED <<items, inFlight, mu, work, wpc, cur, werr, wi, cancelled,
                   nextIndex, panicked, flushed, addedBefore, seen>>

\* Variant: the push that timed out has left the item in the buffer.
PushFailButBuffered(i) ==
    /\ i \in pushing
    /\ bufPc = "flush"
    /\ Notified(i, ErrTimeout)
    /\ buf' = bufAppend(buf, i)
    /\ pushing' = pushing \ {i}
    /\ lastSquash' = NoSquash
    /\ UNCHANGED nonQueue
    /\ UNCHANGED <<inFlight, mu, bufPc, work, wpc, cur, werr, wi, cancelled,
                   nextIndex, flushed, addedBefore, seen>>

\* Add's q.buf.Push(entry) returns an error (the buffer's goroutine is busy
\* in its flusher and the push times out): entry.notify(err).
PushFail(i) ==
    /\ i \in pushing
    /\ bufPc = "flush"
    /\ Notified(i, ErrTimeout)
    /\ pushing' = pushing \ {i}
    /\ lastSquash' = NoSquash
    /\ UNCHANGED nonQueue
    /\ UNCHANGED <<inFlight, mu, buf, bufPc, work, wpc, cur, werr, wi, cancelled,
                   nextIndex, flushed, addedBefore, seen>>

\* The buffer's flush interval (maxAge) elapses with items pending.
Tick ==
    /\ bufPc = "recv"
    /\ buf # <<>>
    /\ bufPc' = "flush"
    /\ lastSquash' = NoSquash
    /\ UNCHANGED nonQueue
    /\ UNCHANGED <<items, inFlight, mu, pushing, buf, work, wpc, cur, werr, wi,
                   cancelled, nextIndex, panicked, flushed, addedBefore, seen>>

\* Variant: the work channel made without a buffer, so that the send needs
\* the worker in its select.
workUnbuffered == work = <<>> /\ wpc = "select"

\* The send work <- entries of toWork can proceed.
workHasRoom == Len(work) < WorkCap

\* Variant: toWork gives the batch up when the work channel is full.
toWorkOrDrop ==
    /\ bufPc = "flush"
    /\ work' = IF workHasRoom THEN Append(work, buf) ELSE work
    /\ buf' = <<>>
    /\ bufPc' = "recv"
    /\ lastSquash' = NoSquash
    /\ UNCHANGED nonQueue
    /\ UNCHANGED <<items, inFlight, mu, pushing, wpc, cur, werr, wi, cancelled,
                   nextIndex, panicked, flushed, addedBefore, seen>>

\* toWork: the buffer's flusher hands the batch to the work channel.
toWork ==
    /\ bufPc = "flush"
    /\ workHasRoom
    /\ work' = Append(work, buf)
    /\ buf' = <<>>
    /\ bufPc' = "recv"
    /\ lastSquash' = NoSquash
    /\ UNCHANGED nonQueue
    /\ UNCHANGED <<items, inFlight, mu, pushing, wpc, cur, werr, wi, cancelled,
                   nextIndex, panicked, flushed, addedBefore, seen>>

\* The worker goroutine's select, case entries := <-work, and doFlush up to
\* its call of q.flush(ctx, entriesData).
entriesData(entries) == entries

\* Variant: a batch is taken from the work channel while doFlush is still
\* busy with the one before (a goroutine per batch).
WorkerTakeBusy ==
    /\ wpc \in {"select", "flush"}
    /\ work # <<>>
    /\ cur' = Head(work)
    /\ work' = Tail(work)
    /\ wpc' = "flush"
    /\ flushed' = Append(flushed, [entries |-> entriesData(Head(work)), err |-> "running"])
    /\ lastSquash' = NoSquash
    /\ UNCHANGED nonQueue
    /\ UNCHANGED <<items, inFlight, mu, pushing, buf, bufPc, werr, wi, cancelled,
                   nextIndex, panicked, addedBefore, seen>>

\* Variant: doFlush takes q.inFlightMu before it calls q.flush.
WorkerTakeLocked ==
    /\ wpc = "select"
    /\ work # <<>>
    /\ mu = "free"
    /\ mu' = "worker"
    /\ cur' = Head(work)
    /\ work' = Tail(work)
    /\ wpc' = "flush"
    /\ flushed' = Append(flushed, [entries |-> entriesData(Head(work)), err |-> "running"])
    /\ lastSquash' = NoSquash
    /\ UNCHANGED nonQueue
    /\ UNCHANGED <<items, inFlight, pushing, buf, bufPc, werr, wi, cancelled,
                   nextIndex, panicked, addedBefore, seen>>

WorkerTake ==
    /\ wpc = "select"
    /\ work # <<>>
    /\ cur' = Head(work)
    /\ work' = Tail(work)
    /\ wpc' = "flush"
    /\ flushed' = Append(flushed, [entries |-> entriesData(Head(work)), err |-> "running"])
    /\ lastSquash' = NoSquash
    /\ UNCHANGED nonQueue
    /\ UNCHANGED <<items, inFlight, mu, pushing, buf, bufPc, werr, wi, cancelled,
                   nextIndex, panicked, addedBefore, seen>>

\* The worker goroutine's select, case <-ctx.Done(): return.
WorkerExit ==
    /\ wpc = "select"
    /\ cancelled
    /\ wpc' = "exited"
    /\ lastSquash' = NoSquash
    /\ UNCHANGED nonQueue
    /\ UNCHANGED <<items, inFlight, mu, pushing, buf, bufPc, work, cur, werr, wi,
                   cancelled, nextIndex, panicked, flushed, addedBefore, seen>>

\* The position of item i in batch b (0: not in it).
PosIn(b, i) == IF \E p \in 1..Len(b) : b[p] = i
               THEN CHOOSE p \in 1..Len(b) : b[p] = i ELSE 0

\* The FlushFunc gives the batch the next contiguous index range.
AssignIndices(b) ==
    [i \in 1..Len(items) |->
        IF PosIn(b, i) # 0
        THEN [items[i] EXCEPT !.index = nextIndex + PosIn(b, i) - 1]
        ELSE items[i]]

\* q.flush returns err; doFlush then takes q.inFlightMu.  The FlushFunc
\* gives the entries their index first (assigned: it has called each entry's
\* MarshalBundleData) and then integrates; when that fails the range is not
\* used up.
FlushReturn(err, assigned) ==
    /\ wpc = "flush"
    /\ mu = "free"
    /\ items' = IF assigned THEN AssignIndices(cur) ELSE items
    /\ nextIndex' = IF err = Nil THEN nextIndex + Len(cur) ELSE nextIndex
    /\ werr' = err
    /\ flushed' = [flushed EXCEPT ![Len(flushed)].err = err]
    /\ mu' = "worker"
    /\ wpc' = "notify"
    /\ wi' = 1
    /\ lastSquash' = NoSquash
    /\ UNCHANGED nonQueue
    /\ UNCHANGED <<inFlight, pushing, buf, bufPc, work, cur, cancelled, panicked,
                   addedBefore, seen>>

FlushOk == FlushReturn(Nil, TRUE)

\* A FlushFunc that returns nil without having called MarshalBundleData on
\* the entries: they have no index.
FlushOkUnassigned == FlushReturn(Nil, FALSE)

\* The errors a FlushFunc may return: its own, or the context's.
FlushErrs == {ErrFlush} \cup (IF cancelled THEN {Canceled} ELSE {})

FlushFail == \E err \in FlushErrs : FlushReturn(err, TRUE)

\* Variant: doFlush leaves the entry in the map.
deleteNothing(m, k) == m

\* delete(q.inFlight, k)
delete(m, k) == [m EXCEPT ![k] = None]

\* Variant: doFlush notifies nil whatever the FlushFunc returned.
notifyErrNil(err) == Nil

\* The error doFlush notifies the entry with.
notifyErr(err) == err

\* One round of doFlush's loop: e.notify(err); delete(q.inFlight, k); after
\* the last entry the deferred Unlock runs and the worker selects again.
NotifyNext ==
    /\ wpc = "notify"
    /\ wi <= Len(cur)
    /\ Notified(cur[wi], notifyErr(werr))
    /\ inFlight' = delete(inFlight, items[cur[wi]].id)
    /\ IF wi = Len(cur)
       THEN /\ wpc' = "select"
            /\ mu' = "free"
            /\ cur' = <<>>
            /\ werr' = Nil
            /\ wi' = 0
       ELSE /\ wi' = wi + 1
            /\ UNCHANGED <<wpc, mu, cur, werr>>
    /\ lastSquash' = NoSquash
    /\ UNCHANGED nonQueue
    /\ UNCHANGED <<pushing, buf, bufPc, work, cancelled, nextIndex, flushed,
                   addedBefore, seen>>

\* A holder of item i's future calls it.
CallFuture(i) ==
    /\ i \in 1..Len(items)
    /\ FutureReady(items[i])
    /\ seen' = [seen EXCEPT ![i] =
                    [calls |-> IF @.calls < MaxCalls THEN @.calls + 1 ELSE @.calls,
                     vals  |-> @.vals \cup {FutureValue(items[i])},
                     recvs |-> IF FutureReceives(items[i]) THEN @.recvs + 1 ELSE @.recvs]]
    /\ items' = [items EXCEPT ![i] = FutureCalled(@)]
    /\ lastSquash' = NoSquash
    /\ UNCHANGED nonQueue
    /\ UNCHANGED <<inFlight, mu, pushing, buf, bufPc, work, wpc, cur, werr, wi,
                   cancelled, nextIndex, panicked, flushed, addedBefore>>

\* The queue's context is cancelled.
Cancel ==
    /\ ~cancelled
    /\ cancelled' = TRUE
    /\ lastSquash' = NoSquash
    /\ UNCHANGED nonQueue
    /\ UNCHANGED <<items, inFlight, mu, pushing, buf, bufPc, work, wpc, cur, werr,
                   wi, nextIndex, panicked, flushed, addedBefore, seen>>

\* ------------------------------------------------------------------------
\* layout
\* ------------------------------------------------------------------------
\* layout.EntryBundleWidth
EntryBundleWidth == 256

RECURSIVE Pow(_, _)
Pow(b, e) == IF e = 0 THEN 1 ELSE b * Pow(b, e - 1)

\* x >> n on a uint64: 0 once n reaches the width.
RECURSIVE Shr(_, _)
Shr(x, n) == IF n >= 64 \/ x = 0 THEN 0 ELSE IF n = 0 THEN x ELSE Shr(x \div 2, n - 1)

\* Variant: a tile counts as full up to and including index fullTiles.
partialTileSizeInclusive(level, index, logSize) ==
    LET sizeAtLevel == Shr(logSize, level * 8)
        fullTiles == sizeAtLevel \div 256
    IN  IF index <= fullTiles THEN 0 ELSE sizeAtLevel % 256

\* partialTileSize(level, index, logSize), for a level below 2^61, where
\* level * 8 does not wrap.
partialTileSize(level, index, logSize) ==
    LET sizeAtLevel == Shr(logSize, level * 8)
        fullTiles == sizeAtLevel \div 256
    IN  IF index < fullTiles THEN 0 ELSE sizeAtLevel % 256

\* Variant: the range starts at the first bundle that lies wholly past from.
RangeSkipsTail(from, N, treeSize) ==
    IF N <= 0 THEN <<>>
    ELSE LET sIndex == (from + EntryBundleWidth - 1) \div EntryBundleWidth
             eIndex == (from + N - 1) \div EntryBundleWidth
         IN  [p \in 1..(eIndex - sIndex + 1) |->
                 [Index |-> sIndex + p - 1,
                  Partial |-> partialTileSize(0, sIndex + p - 1, treeSize)]]

\* layout.Range(from, N, treeSize), as the sequence of the (Index, Partial)
\* it yields: the entry bundles that hold the entries [from, from+N) of a
\* tree of treeSize entries.
Range(from, N, treeSize) ==
    IF N <= 0 THEN <<>>
    ELSE LET sIndex == from \div EntryBundleWidth
             eIndex == (from + N - 1) \div EntryBundleWidth
         IN  [p \in 1..(eIndex - sIndex + 1) |->
                 [Index |-> sIndex + p - 1,
                  Partial |-> partialTileSize(0, sIndex + p - 1, treeSize)]]

\* Variant: every row of a tile taken to be as wide as its lowest one.
tileRowWidthFull(treeLevel) == 256

\* tileRowWidth := uint64(1 << (8 - treeLevel%8))
tileRowWidth(treeLevel) == Pow(2, 8 - (treeLevel % 8))

\* NodeCoordsToTileAddress(treeLevel, treeIndex):
\* <<tileLevel, tileIndex, nodeLevel, nodeIndex>>
NodeCoordsToTileAddress(treeLevel, treeIndex) ==
    <<treeLevel \div 8,
      treeIndex \div tileRowWidth(treeLevel),
      treeLevel % 8,
      treeIndex % tileRowWidth(treeLevel)>>

\* The arguments the functions are called with.
Levels == 0..MaxLevel
Points == {0} \cup {m * Pow(256, e) + d : m \in 1..MaxMult, e \in 0..2, d \in {-1, 0, 1}}

\* The level below 2^61 that partialTileSize takes the level
\* high * 2^61 + low for: it uses its level in level * 8 only, and on a
\* uint64 (high * 2^61 + low) * 8 = high * 2^64 + low * 8 wraps to low * 8.
wrapLevel(high, low) == low

\* One call of partialTileSize, with level high * 2^61 + lLevel.
CallPartialTileSize(high) ==
    /\ lpc = "call"
    /\ lpc' = "partialTileSize"
    /\ lHigh' = high
    /\ lOut' = <<partialTileSize(wrapLevel(high, lLevel), lIndex, lSize)>>
    /\ UNCHANGED <<lLevel, lIndex, lSize>>
    /\ UNCHANGED nonLayout

\* One call of NodeCoordsToTileAddress.
CallNodeCoordsToTileAddress ==
    /\ lpc = "call"
    /\ lpc' = "NodeCoordsToTileAddress"
    /\ lOut' = NodeCoordsToTileAddress(lLevel, lIndex)
    /\ UNCHANGED <<lLevel, lHigh, lIndex, lSize>>
    /\ UNCHANGED nonLayout

\* ------------------------------------------------------------------------
\* Migrate
\* ------------------------------------------------------------------------
Workers == 1..MaxWorkers
\* The sizes of the source and the target log.
LogSizes == {b * EntryBundleWidth + r : b \in {0, MaxBundles - 1}, r \in {0, 232}}
\* The root of the source's entries, and another one.
TrueRoot == "root"
WrongRoot == "other root"
NotStored == -1
NoBundle == [Index |-> -1, Partial |-> 0]
SizeFailed == -1

\* Before Migrate is called.
MigrateIdle ==
    /\ numWorkers = 1
    /\ sourceSize = 0
    /\ sourceRoot = TrueRoot
    /\ mpc = "init"
    /\ mret = "none"
    /\ targetSize = 0
    /\ pleft = <<>>
    /\ ppc = "off"
    /\ todo = <<>>
    /\ wst = [w \in Workers |-> "off"]
    /\ wb = [w \in Workers |-> NoBundle]
    /\ watt = [w \in Workers |-> 0]
    /\ await = "off"
    /\ root = "none"
    /\ stored = [b \in 0..(MaxBundles - 1) |-> NotStored]
    /\ bundlesMigrated = 0
    /\ calls = {}
    /\ integrated = 0
    /\ sent = <<>>
    /\ took = [w \in Workers |-> <<>>]
    /\ erred = FALSE
    /\ wlast = [w \in Workers |-> "none"]
    /\ mcancelled = FALSE
    /\ spc = "off"
    /\ bundlesToMigrate = 0

\* Variant: Migrate without the comparison of the two sizes.
tooBigNever(target, source) == FALSE

\* targetSize > sourceSize
tooBig(target, source) == target > source

\* bundlesToMigrate := (sourceSize / layout.EntryBundleWidth) -
\*                     (targetSize / layout.EntryBundleWidth) + 1
\* Both sizes are below 2^31 here, so the uint64 arithmetic does not wrap
\* (the goroutine runs only with targetSize <= sourceSize).
toMigrate(target, source) ==
    (source \div EntryBundleWidth) - (target \div EntryBundleWidth) + 1

\* Migrate up to eg.Wait: storage.IntegratedSize returned size (SizeFailed:
\* an error); Migrate returns an error, or starts populateWork, the workers
\* and the AwaitIntegration goroutine.
MigrateStart(size) ==
    /\ mpc = "init"
    /\ calls' = calls \cup {"IntegratedSize"}
    /\ IF size = SizeFailed
       THEN /\ mpc' = "returned"
            /\ mret' = "size error"
            /\ targetSize' = SizeFailed
            /\ UNCHANGED <<pleft, ppc, wst, await, spc, bundlesToMigrate>>
       ELSE IF tooBig(size, sourceSize)
       THEN /\ mpc' = "returned"
            /\ mret' = "target size > source size"
            /\ targetSize' = size
            /\ UNCHANGED <<pleft, ppc, wst, await, spc, bundlesToMigrate>>
       ELSE /\ mpc' = "wait"
            /\ targetSize' = size
            /\ pleft' = Range(size, sourceSize - size, sourceSize)
            /\ ppc' = "send"
            /\ wst' = [w \in Workers |-> IF w <= numWorkers THEN "range" ELSE "off"]
            /\ await' = "wait"
            /\ bundlesToMigrate' = toMigrate(size, sourceSize)
            /\ spc' = IF toMigrate(size, sourceSize) = 0 THEN "returned" ELSE "loop"
            /\ UNCHANGED mret
    /\ UNCHANGED <<numWorkers, sourceSize, sourceRoot, todo, wb, watt, root, stored,
                   bundlesMigrated>>
    /\ UNCHANGED <<integrated, sent, took, erred>>
    /\ UNCHANGED <<wlast, mcancelled>>
    /\ UNCHANGED nonMigrate

\* populateWork: m.todo <- bundle{...}; the channel holds numWorkers bundles.
PopulateSend ==
    /\ ppc = "send"
    /\ pleft # <<>>
    /\ Len(todo) < numWorkers
    /\ todo' = Append(todo, Head(pleft))
    /\ sent' = Append(sent, Head(pleft))
    /\ pleft' = Tail(pleft)
    /\ UNCHANGED <<numWorkers, sourceSize, sourceRoot, mpc, mret, targetSize, ppc, wst,
                   wb, watt, await, root, stored, bundlesMigrated, calls>>
    /\ UNCHANGED <<integrated, took, erred>>
    /\ UNCHANGED <<wlast, mcancelled>>
    /\ UNCHANGED <<spc, bundlesToMigrate>>
    /\ UNCHANGED nonMigrate

\* Variant: populateWork returns without closing m.todo.
PopulateReturnsOpen ==
    /\ ppc = "send"
    /\ pleft = <<>>
    /\ ppc' = "returned"
    /\ UNCHANGED <<numWorkers, sourceSize, sourceRoot, mpc, mret, targetSize, pleft,
                   todo, wst, wb, watt, await, root, stored, bundlesMigrated, calls>>
    /\ UNCHANGED <<integrated, sent, took, erred>>
    /\ UNCHANGED <<wlast, mcancelled>>
    /\ UNCHANGED <<spc, bundlesToMigrate>>
    /\ UNCHANGED nonMigrate

\* populateWork returns: the deferred close(m.todo).
PopulateClose ==
    /\ ppc = "send"
    /\ pleft = <<>>
    /\ ppc' = "closed"
    /\ UNCHANGED <<numWorkers, sourceSize, sourceRoot, mpc, mret, targetSize, pleft,
                   todo, wst, wb, watt, await, root, stored, bundlesMigrated, calls>>
    /\ UNCHANGED <<integrated, sent, took, erred>>
    /\ UNCHANGED <<wlast, mcancelled>>
    /\ UNCHANGED <<spc, bundlesToMigrate>>
    /\ UNCHANGED nonMigrate

\* Variant: the receive leaves the bundle in the channel.
receivedKept(ch) == ch

\* What a receive leaves in the channel ch.
received(ch) == Tail(ch)

\* migrateWorker: for b := range m.todo, and the start of retry.Do.
WorkerNext(w) ==
    /\ wst[w] = "range"
    /\ todo # <<>>
    /\ wb' = [wb EXCEPT ![w] = Head(todo)]
    /\ todo' = received(todo)
    /\ took' = [took EXCEPT ![w] = Append(@, Head(todo).Index)]
    /\ wst' = [wst EXCEPT ![w] = "try"]
    /\ watt' = [watt EXCEPT ![w] = 1]
    /\ UNCHANGED <<numWorkers, sourceSize, sourceRoot, mpc, mret, targetSize, pleft,
                   ppc, await, root, stored, bundlesMigrated, calls>>
    /\ UNCHANGED <<integrated, sent, erred>>
    /\ wlast' = [wlast EXCEPT ![w] = "none"]
    /\ UNCHANGED mcancelled
    /\ UNCHANGED <<spc, bundlesToMigrate>>
    /\ UNCHANGED nonMigrate

\* migrateWorker: the range over m.todo ends (closed and drained): return nil.
WorkerDone(w) ==
    /\ wst[w] = "range"
    /\ todo = <<>>
    /\ ppc = "closed"
    /\ wst' = [wst EXCEPT ![w] = "done"]
    /\ UNCHANGED <<numWorkers, sourceSize, sourceRoot, mpc, mret, targetSize, pleft,
                   ppc, todo, wb, watt, await, root, stored, bundlesMigrated, calls>>
    /\ UNCHANGED <<integrated, sent, took, erred>>
    /\ UNCHANGED <<wlast, mcancelled>>
    /\ UNCHANGED <<spc, bundlesToMigrate>>
    /\ UNCHANGED nonMigrate

\* Variant: retry.Do gives up after one attempt more.
AfterFailureOneMore(w) ==
    IF watt[w] > Attempts
    THEN /\ wst' = [wst EXCEPT ![w] = "failed"]
         /\ UNCHANGED watt
    ELSE /\ watt' = [watt EXCEPT ![w] = @ + 1]
         /\ wst' = [wst EXCEPT ![w] = "try"]

\* What a failed attempt leads to: the next attempt, which starts with
\* m.getEntries again, or, after retry.Attempts(10), retry.Do returns the
\* error and the worker with it.  No RetryIf is given and no error is
\* wrapped with retry.Unrecoverable, so the error itself is not looked at.
AfterFailure(w) ==
    IF watt[w] >= Attempts
    THEN /\ wst' = [wst EXCEPT ![w] = "failed"]
         /\ UNCHANGED watt
    ELSE /\ watt' = [watt EXCEPT ![w] = @ + 1]
         /\ wst' = [wst EXCEPT ![w] = "try"]

\* One attempt of retry.Do's func: m.getEntries fails with an error of the
\* given kind.  ctx is handed to getEntries and not to retry.Do, so the
\* attempt is made whether or not ctx is cancelled.
FetchFailsWith(w, kind) ==
    /\ wst[w] = "try"
    /\ calls' = calls \cup {"getEntries"}
    /\ AfterFailure(w)
    /\ erred' = TRUE
    /\ wlast' = [wlast EXCEPT ![w] = kind]
    /\ UNCHANGED <<numWorkers, sourceSize, sourceRoot, mpc, mret, targetSize, pleft,
                   ppc, todo, wb, await, root, stored, bundlesMigrated>>
    /\ UNCHANGED <<integrated, sent, took, mcancelled>>
    /\ UNCHANGED <<spc, bundlesToMigrate>>
    /\ UNCHANGED nonMigrate

FetchFails(w) == FetchFailsWith(w, "transient")

FetchFailsPermanent(w) == FetchFailsWith(w, "permanent")

\* One attempt of retry.Do's func: m.getEntries returns the bundle d.
Fetched(w) ==
    /\ wst[w] = "try"
    /\ calls' = calls \cup {"getEntries"}
    /\ wst' = [wst EXCEPT ![w] = "store"]
    /\ UNCHANGED <<numWorkers, sourceSize, sourceRoot, mpc, mret, targetSize, pleft,
                   ppc, todo, wb, watt, await, root, stored, bundlesMigrated>>
    /\ UNCHANGED <<integrated, sent, took, erred, wlast, mcancelled>>
    /\ UNCHANGED <<spc, bundlesToMigrate>>
    /\ UNCHANGED nonMigrate

\* One attempt of retry.Do's func: after m.getEntries, SetEntryBundle fails
\* with an error of the given kind.
StoreFailsWith(w, kind) ==
    /\ wst[w] = "store"
    /\ calls' = calls \cup {"SetEntryBundle"}
    /\ AfterFailure(w)
    /\ erred' = TRUE
    /\ wlast' = [wlast EXCEPT ![w] = kind]
    /\ UNCHANGED <<numWorkers, sourceSize, sourceRoot, mpc, mret, targetSize, pleft,
                   ppc, todo, wb, await, root, stored, bundlesMigrated>>
    /\ UNCHANGED <<integrated, sent, took, mcancelled>>
    /\ UNCHANGED <<spc, bundlesToMigrate>>
    /\ UNCHANGED nonMigrate

StoreFails(w) == StoreFailsWith(w, "transient")

StoreFailsPermanent(w) == StoreFailsWith(w, "permanent")

\* One attempt of retry.Do's func: after m.getEntries, the bundle is stored;
\* m.bundlesMigrated.Add(1); the worker goes on with its range.
Copied(w) ==
    /\ wst[w] = "store"
    /\ calls' = calls \cup {"SetEntryBundle"}
    /\ stored' = [stored EXCEPT ![wb[w].Index] = wb[w].Partial]
    /\ bundlesMigrated' = bundlesMigrated + 1
    /\ wst' = [wst EXCEPT ![w] = "range"]
    /\ UNCHANGED <<numWorkers, sourceSize, sourceRoot, mpc, mret, targetSize, pleft,
                   ppc, todo, wb, watt, await, root>>
    /\ UNCHANGED <<integrated, sent, took, erred, wlast, mcancelled>>
    /\ UNCHANGED <<spc, bundlesToMigrate>>
    /\ UNCHANGED nonMigrate

\* One round of the stats goroutine's loop: time.Sleep, then
\* m.bundlesMigrated.Load(), m.storage.IntegratedSize(ctx) and the log line.
\* The loop has no exit.
StatsTick ==
    /\ spc = "loop"
    /\ calls' = calls \cup {"IntegratedSize"}
    /\ UNCHANGED <<numWorkers, sourceSize, sourceRoot, mpc, mret, targetSize, pleft,
                   ppc, todo, wst, wb, watt, await, root, stored, bundlesMigrated,
                   integrated, sent, took, erred, wlast, mcancelled>>
    /\ UNCHANGED <<spc, bundlesToMigrate>>
    /\ UNCHANGED nonMigrate

\* The caller cancels the ctx it gave to Migrate.
MigrateCancel ==
    /\ mpc = "wait"
    /\ ~mcancelled
    /\ mcancelled' = TRUE
    /\ UNCHANGED <<numWorkers, sourceSize, sourceRoot, mpc, mret, targetSize, pleft,
                   ppc, todo, wst, wb, watt, await, root, stored, bundlesMigrated,
                   calls, integrated, sent, took, erred, wlast>>
    /\ UNCHANGED <<spc, bundlesToMigrate>>
    /\ UNCHANGED nonMigrate

\* The bundles the range [targetSize, sourceSize) needs are all stored.
AllStored ==
    \A p \in 1..Len(Range(targetSize, sourceSize - targetSize, sourceSize)) :
        stored[Range(targetSize, sourceSize - targetSize, sourceSize)[p].Index] # NotStored

\* storage.AwaitIntegration(ctx, sourceSize) returns the root the storage
\* calculated, once it has received and integrated every bundle.
AwaitReturns ==
    /\ await = "wait"
    /\ AllStored
    /\ await' = "done"
    /\ integrated' = sourceSize
    /\ root' = TrueRoot
    /\ calls' = calls \cup {"AwaitIntegration"}
    /\ UNCHANGED <<numWorkers, sourceSize, sourceRoot, mpc, mret, targetSize, pleft,
                   ppc, todo, wst, wb, watt, stored, bundlesMigrated>>
    /\ UNCHANGED <<sent, took, erred>>
    /\ UNCHANGED <<wlast, mcancelled>>
    /\ UNCHANGED <<spc, bundlesToMigrate>>
    /\ UNCHANGED nonMigrate

\* storage.AwaitIntegration(ctx, sourceSize) returns an error.
AwaitFails ==
    /\ await = "wait"
    /\ await' = "failed"
    /\ calls' = calls \cup {"AwaitIntegration"}
    /\ UNCHANGED <<numWorkers, sourceSize, sourceRoot, mpc, mret, targetSize, pleft,
                   ppc, todo, wst, wb, watt, root, stored, bundlesMigrated>>
    /\ UNCHANGED <<integrated, sent, took, erred>>
    /\ UNCHANGED <<wlast, mcancelled>>
    /\ UNCHANGED <<spc, bundlesToMigrate>>
    /\ UNCHANGED nonMigrate

\* Variant: the comparison of the roots always succeeds.
bytesEqualAlways(a, b) == TRUE

\* bytes.Equal(a, b)
bytesEqual(a, b) == a = b

\* eg.Wait() returns when the workers and the AwaitIntegration goroutine
\* have all returned; then the roots are compared.
MigrateReturn ==
    /\ mpc = "wait"
    /\ \A w \in Workers : wst[w] \in {"off", "done", "failed"}
    /\ await \in {"done", "failed"}
    /\ mpc' = "returned"
    /\ mret' = IF await = "failed" \/ \E w \in Workers : wst[w] = "failed"
               THEN "migration failed"
               ELSE IF ~bytesEqual(root, sourceRoot) THEN "root mismatch"
               ELSE "nil"
    /\ UNCHANGED <<numWorkers, sourceSize, sourceRoot, targetSize, pleft, ppc, todo,
                   wst, wb, watt, await, root, stored, bundlesMigrated, calls>>
    /\ UNCHANGED <<integrated, sent, took, erred>>
    /\ UNCHANGED <<wlast, mcancelled>>
    /\ UNCHANGED <<spc, bundlesToMigrate>>
    /\ UNCHANGED nonMigrate

\* A call of Migrate(ctx, numWorkers, sourceSize, sourceRoot, getEntries, storage).
MigrateInit ==
    /\ QueueInit
    /\ OthersIdle
    /\ numWorkers \in Workers
    /\ sourceSize \in LogSizes
    /\ sourceRoot \in {TrueRoot, WrongRoot}
    /\ mpc = "init"
    /\ mret = "none"
    /\ targetSize = 0
    /\ pleft = <<>>
    /\ ppc = "off"
    /\ todo = <<>>
    /\ wst = [w \in Workers |-> "off"]
    /\ wb = [w \in Workers |-> NoBundle]
    /\ watt = [w \in Workers |-> 0]
    /\ await = "off"
    /\ root = "none"
    /\ stored = [b \in 0..(MaxBundles - 1) |-> NotStored]
    /\ bundlesMigrated = 0
    /\ calls = {}
    /\ integrated \in LogSizes
    /\ sent = <<>>
    /\ took = [w \in Workers |-> <<>>]
    /\ erred = FALSE
    /\ wlast = [w \in Workers |-> "none"]
    /\ mcancelled = FALSE
    /\ spc = "off"
    /\ bundlesToMigrate = 0

MigrateNext ==
    \/ \E size \in {integrated, SizeFailed} : MigrateStart(size)
    \/ PopulateSend
    \/ PopulateClose
    \/ \E w \in Workers : WorkerNext(w)
    \/ \E w \in Workers : WorkerDone(w)
    \/ \E w \in Workers : FetchFails(w)
    \/ \E w \in Workers : Fetched(w)
    \/ \E w \in Workers : StoreFails(w)
    \/ \E w \in Workers : Copied(w)
    \/ AwaitReturns
    \/ AwaitFails
    \/ MigrateReturn
    \/ StatsTick

MigrateSpec == MigrateInit /\ [][MigrateNext]_vars

\* Migrate under the scheduling the Go runtime gives its goroutines: each
\* goroutine that can take its next step does, every attempt of a worker
\* ends, and AwaitIntegration returns once everything is integrated.
\* Nothing makes a call fail.
MigrateFairness ==
    /\ WF_vars(\E size \in {integrated, SizeFailed} : MigrateStart(size))
    /\ WF_vars(PopulateSend)
    /\ WF_vars(PopulateClose)
    /\ \A w \in Workers : WF_vars(WorkerNext(w))
    /\ \A w \in Workers : WF_vars(WorkerDone(w))
    /\ \A w \in Workers : WF_vars(FetchFails(w) \/ Fetched(w) \/ StoreFails(w) \/ Copied(w))
    /\ WF_vars(AwaitReturns)
    /\ WF_vars(MigrateReturn)

MigrateFairSpec == MigrateInit /\ [][MigrateNext]_vars /\ MigrateFairness

\* Migrate, under the same scheduling, of a source with the root the caller
\* gives into a target that holds less than one bundle.
CopyInit ==
    /\ MigrateInit
    /\ sourceRoot = TrueRoot
    /\ integrated < EntryBundleWidth

CopyFairSpec == CopyInit /\ [][MigrateNext]_vars /\ MigrateFairness

\* Migrate of a source of one bundle, with errors of both kinds and a caller
\* that may cancel ctx.
OneBundle == {size \in LogSizes : 0 < size /\ size < EntryBundleWidth}

RetryInit ==
    /\ MigrateInit
    /\ sourceSize \in OneBundle
    /\ integrated = 0
    /\ sourceRoot = TrueRoot

RetryNext ==
    \/ MigrateNext
    \/ \E w \in Workers : FetchFailsPermanent(w)
    \/ \E w \in Workers : StoreFailsPermanent(w)
    \/ MigrateCancel

RetrySpec == RetryInit /\ [][RetryNext]_vars

\* ------------------------------------------------------------------------
\* Specification of the layout functions
\* ------------------------------------------------------------------------
LayoutInit ==
    /\ QueueInit
    /\ MigrateIdle
    /\ ClientIdle
    /\ HttpIdle
    /\ RRIdle
    /\ lpc = "call"
    /\ lLevel \in Levels
    /\ lHigh = 0
    /\ lIndex \in Points
    /\ lSize \in Points
    /\ lOut = <<>>

LayoutNext ==
    \/ \E high \in 0..MaxHigh : CallPartialTileSize(high)
    \/ CallNodeCoordsToTileAddress

LayoutSpec == LayoutInit /\ [][LayoutNext]_vars

\* ------------------------------------------------------------------------
\* The HTTP handlers of the conformance server
\* ------------------------------------------------------------------------
\* Bytes are numbers, a body is a sequence of them.  A []byte the storage
\* returns is nil or a sequence.
NilBytes == [nil |-> TRUE, bytes |-> <<>>]
Bytes(b) == [nil |-> FALSE, bytes |-> b]
\* What the storage may hold at an address.
Stored == {NilBytes, Bytes(<<>>), Bytes(<<1>>), Bytes(<<2, 3>>)}
\* What a read of the storage returns: an error, or what it holds.
ReadResults == {[err |-> TRUE, data |-> NilBytes]} \cup {[err |-> FALSE, data |-> d] : d \in Stored}

\* http.Status*
StatusOK == 200
StatusBadRequest == 400
StatusNotFound == 404
StatusInternalServerError == 500
StatusServiceUnavailable == 503

CacheImmutable == <<"Cache-Control", "public, max-age=31536000, immutable">>

\* The text of an error, and of the answer to a malformed URL.
ErrorText == <<101, 114, 114>>
MalformedText == <<77, 97, 108>>

\* fmt.Sprintf("%d", n): the decimal digits of n, in ASCII.
RECURSIVE Sprintf_d(_)
Sprintf_d(n) == IF n < 10 THEN <<48 + n>> ELSE Append(Sprintf_d(n \div 10), 48 + (n % 10))

\* The requests.  A tile path names a level, an index and, with a .p suffix,
\* the partial width (0: no suffix); it may also be malformed.
AddRequests == [handler : {"add"}, bodyErr : BOOLEAN]
TilePaths == [malformed : BOOLEAN, level : 0..MaxPath, index : 0..MaxPath, partial : {0, 5, 255}]
\* What storage.Add(...)() returns: an index, or an error.
AddResults == [idx : {0, 7, 10, 123}, err : {Nil}] \cup [idx : {0}, err : {"overloaded", "other"}]

\* layout.ParseTileLevelIndexWidth(level, index)
ParseTileLevelIndexWidth(path) ==
    [err |-> path.malformed, level |-> path.level, index |-> path.index, width |-> path.partial]

\* layout.ParseTileIndexWidth(index)
ParseTileIndexWidth(path) ==
    [err |-> path.malformed, index |-> path.index, width |-> path.partial]

\* w.WriteHeader(status) and return, nothing written.
statusOnly(status) == [status |-> status, header |-> {}, body |-> <<>>]

\* Variant: a nil result is not told from an empty one.
isNilNever(data) == FALSE

\* checkpoint == nil, tile == nil, entryBundle == nil
isNil(data) == data.nil

\* POST /add
addResponse(req, res) ==
    IF req.bodyErr THEN statusOnly(StatusInternalServerError)
    ELSE IF res.err # Nil
    THEN [status |-> StatusInternalServerError, header |-> {}, body |-> ErrorText]
    ELSE [status |-> StatusOK, header |-> {}, body |-> Sprintf_d(res.idx)]

\* GET /checkpoint
checkpointResponse(res) ==
    IF res.err THEN statusOnly(StatusInternalServerError)
    ELSE IF isNil(res.data) THEN statusOnly(StatusNotFound)
    ELSE [status |-> StatusOK, header |-> {}, body |-> res.data.bytes]

\* GET /tile/{level}/{index...}
tileResponse(path, res) ==
    IF ParseTileLevelIndexWidth(path).err
    THEN [status |-> StatusBadRequest, header |-> {}, body |-> MalformedText]
    ELSE IF res.err THEN statusOnly(StatusInternalServerError)
    ELSE IF isNil(res.data) THEN statusOnly(StatusNotFound)
    ELSE [status |-> StatusOK, header |-> {CacheImmutable}, body |-> res.data.bytes]

\* GET /tile/entries/{index...}
entriesResponse(path, res) ==
    IF ParseTileIndexWidth(path).err
    THEN [status |-> StatusBadRequest, header |-> {}, body |-> MalformedText]
    ELSE IF res.err THEN statusOnly(StatusInternalServerError)
    ELSE IF isNil(res.data) THEN statusOnly(StatusNotFound)
    ELSE [status |-> StatusOK, header |-> {}, body |-> res.data.bytes]

\* The server answers a POST /add: the body is read, and if that worked
\* storage.Add is called and its future awaited.
PostAdd(req, res) ==
    /\ hpc' = "add"
    /\ hreq' = req
    /\ hres' = IF req.bodyErr THEN NoResult ELSE res
    /\ hresp' = addResponse(req, res)
    /\ UNCHANGED nonHttp

\* The server answers a GET /checkpoint with what storage.ReadCheckpoint returned.
GetCheckpoint(res) ==
    /\ hpc' = "checkpoint"
    /\ hreq' = [handler |-> "checkpoint"]
    /\ hres' = res
    /\ hresp' = checkpointResponse(res)
    /\ UNCHANGED nonHttp

\* The server answers a GET /tile/{level}/{index...}: storage.ReadTile is
\* called if the path parses.
GetTile(path, res) ==
    /\ hpc' = "tile"
    /\ hreq' = [handler |-> "tile", path |-> path]
    /\ hres' = IF ParseTileLevelIndexWidth(path).err THEN NoResult ELSE res
    /\ hresp' = tileResponse(path, res)
    /\ UNCHANGED nonHttp

\* The server answers a GET /tile/entries/{index...}: storage.ReadEntryBundle
\* is called if the path parses.
GetEntries(path, res) ==
    /\ hpc' = "entries"
    /\ hreq' = [handler |-> "entries", path |-> path]
    /\ hres' = IF ParseTileIndexWidth(path).err THEN NoResult ELSE res
    /\ hresp' = entriesResponse(path, res)
    /\ UNCHANGED nonHttp

HttpInit ==
    /\ QueueInit
    /\ MigrateIdle
    /\ ClientIdle
    /\ LayoutIdle
    /\ RRIdle
    /\ HttpIdle

HttpNext ==
    \/ \E req \in AddRequests, res \in AddResults : PostAdd(req, res)
    \/ \E res \in ReadResults : GetCheckpoint(res)
    \/ \E path \in TilePaths, res \in ReadResults : GetTile(path, res)
    \/ \E path \in TilePaths, res \in ReadResults : GetEntries(path, res)

HttpSpec == HttpInit /\ [][HttpNext]_vars

\* ------------------------------------------------------------------------
\* roundRobinFetcher.next / roundRobinLeafWriter.next
\* ------------------------------------------------------------------------
\* rr.f[i] / rr.ws[i]: the backends are numbered from 1 in the order they
\* were configured.
backendAt(i) == i + 1

\* The calls of next() that have read their backend or are about to.
CallsBegun == Len(rrLog) + Cardinality({c \in Callers : rrPc[c] = "read"})

\* Variant: Lock() that does not wait for the holder.
mutexFreeAlways(holder) == TRUE

\* rr.Lock() can return: nobody holds the mutex.
mutexFree(holder) == holder = None

\* next(): rr.Lock()
RRLock(c) ==
    /\ rrPc[c] = "idle"
    /\ CallsBegun < MaxNextCalls
    /\ mutexFree(rrMu)
    /\ rrMu' = c
    /\ rrPc' = [rrPc EXCEPT ![c] = "read"]
    /\ UNCHANGED <<rrKind, rrLen, rrIdx, rrF, rrLog>>
    /\ UNCHANGED nonRR

\* next(): f := rr.f[rr.idx]
RRRead(c) ==
    /\ rrPc[c] = "read"
    /\ rrF' = [rrF EXCEPT ![c] = backendAt(rrIdx)]
    /\ rrLog' = Append(rrLog, backendAt(rrIdx))
    /\ rrPc' = [rrPc EXCEPT ![c] = "update"]
    /\ UNCHANGED <<rrKind, rrLen, rrIdx, rrMu>>
    /\ UNCHANGED nonRR

\* next(): rr.idx = (rr.idx + 1) % len(rr.f)
RRUpdate(c) ==
    /\ rrPc[c] = "update"
    /\ rrIdx' = (rrIdx + 1) % rrLen
    /\ rrPc' = [rrPc EXCEPT ![c] = "unlock"]
    /\ UNCHANGED <<rrKind, rrLen, rrMu, rrF, rrLog>>
    /\ UNCHANGED nonRR

\* next(): return f, and the deferred rr.Unlock()
RRUnlock(c) ==
    /\ rrPc[c] = "unlock"
    /\ rrMu' = None
    /\ rrPc' = [rrPc EXCEPT ![c] = "idle"]
    /\ UNCHANGED <<rrKind, rrLen, rrIdx, rrF, rrLog>>
    /\ UNCHANGED nonRR

\* A roundRobinFetcher or a roundRobinLeafWriter as newLogClientsFromFlags
\* makes it (at least one backend), and its callers.
RRInit ==
    /\ QueueInit
    /\ MigrateIdle
    /\ ClientIdle
    /\ LayoutIdle
    /\ HttpIdle
    /\ rrKind \in {"roundRobinFetcher", "roundRobinLeafWriter"}
    /\ rrLen \in 1..MaxBackends
    /\ rrIdx = 0
    /\ rrMu = None
    /\ rrPc = [c \in Callers |-> "idle"]
    /\ rrF = [c \in Callers |-> None]
    /\ rrLog = <<>>

RRNext ==
    \/ \E c \in Callers : RRLock(c)
    \/ \E c \in Callers : RRRead(c)
    \/ \E c \in Callers : RRUpdate(c)
    \/ \E c \in Callers : RRUnlock(c)

RRSpec == RRInit /\ [][RRNext]_vars

\* ------------------------------------------------------------------------
\* Specifications of the queue
\* ------------------------------------------------------------------------
Init == QueueInit /\ MigrateIdle /\ OthersIdle

\* Add(k) in a behaviour that creates at most n items.  Identities are
\* opaque map keys, so the callers use them in order: a new identity is the
\* smallest one no Add has used yet.
AddUpTo(k, n) ==
    /\ inFlight[k] = None => /\ Len(items) < n
                             /\ Cardinality(pushing) < MaxCallers
    /\ \A j \in 1..(k - 1) : \E i \in 1..Len(items) : items[i].id = j
    /\ Add(k)

\* The steps of the queue's goroutines and of the Add calls inside Push.
QueueStep ==
    \/ \E i \in pushing : Push(i)
    \/ \E i \in pushing : PushFail(i)
    \/ Tick
    \/ toWork
    \/ WorkerTake
    \/ WorkerExit
    \/ FlushOk
    \/ FlushFail
    \/ NotifyNext
    \/ Cancel

Next ==
    \/ \E k \in Ids : AddUpTo(k, MaxItems)
    \/ QueueStep

Spec == Init /\ [][Next]_vars

\* The queue with room for one more batch than the pipeline can hold.
WideNext ==
    \/ \E k \in Ids : AddUpTo(k, WideItems)
    \/ QueueStep

WideSpec == Init /\ [][WideNext]_vars

\* The queue together with the callers of the futures Add returned.
FutureNext ==
    \/ \E k \in Ids : AddUpTo(k, FutureItems)
    \/ QueueStep
    \/ \E i \in 1..Len(items) : CallFuture(i)

FutureSpec == Init /\ [][FutureNext]_vars

\* The queue with callers of the futures and a FlushFunc that may leave the
\* entries without an index.
UnassignedNext ==
    \/ FutureNext
    \/ FlushOkUnassigned

UnassignedSpec == Init /\ [][UnassignedNext]_vars

\* The queue under load: the context is not cancelled, the FlushFunc does not
\* fail, and the buffer emits its batches when they are full.
BulkNext ==
    \/ \E k \in Ids : AddUpTo(k, BulkItems)
    \/ \E i \in pushing : Push(i)
    \/ \E i \in pushing : PushFail(i)
    \/ toWork
    \/ WorkerTake
    \/ FlushOk
    \/ NotifyNext

BulkSpec == Init /\ [][BulkNext]_vars

\* The queue under the scheduling the Go runtime gives its goroutines: a
\* blocked Push returns (taken by the buffer, or timed out), the flush
\* interval elapses, a send or receive that can proceed does, and every
\* FlushFunc invocation returns.
Fairness ==
    /\ \A i \in 1..MaxItems : WF_vars(Push(i) \/ PushFail(i))
    /\ WF_vars(Tick)
    /\ WF_vars(toWork)
    /\ WF_vars(WorkerTake)
    /\ WF_vars(FlushOk \/ FlushFail)
    /\ WF_vars(NotifyNext)

FairSpec == Init /\ [][Next]_vars /\ Fairness

\* ------------------------------------------------------------------------
\* Properties of the queue
\* ------------------------------------------------------------------------
Created == 1..Len(items)

\* Flattening of a sequence of batches.
RECURSIVE Flatten(_)
Flatten(bs) == IF bs = <<>> THEN <<>> ELSE Head(bs) \o Flatten(Tail(bs))

\* The batches passed to the FlushFunc so far, in order.
FlushedBatches == [b \in 1..Len(flushed) |-> flushed[b].entries]

\* Every item the buffer ever took, in the order in which it reaches (or is
\* going to reach) the FlushFunc.
Pipeline == Flatten(FlushedBatches) \o Flatten(work) \o buf

\* The number of the flushed batch that holds item i (0: none).
BatchOf(i) == IF \E b \in 1..Len(flushed) : PosIn(flushed[b].entries, i) # 0
              THEN CHOOSE b \in 1..Len(flushed) : PosIn(flushed[b].entries, i) # 0
              ELSE 0

\* doFlush has returned for flushed batch b.
FlushDone(b) == b < Len(flushed) \/ wpc \notin {"flush", "notify"}

\* Item i is in flight: inside Push, buffered, in the work channel, or in
\* the batch doFlush holds and not yet notified.
InFlightItems ==
    pushing
    \cup {buf[p] : p \in 1..Len(buf)}
    \cup {Flatten(work)[p] : p \in 1..Len(Flatten(work))}
    \cup {cur[p] : p \in (IF wpc = "notify" THEN wi ELSE 1)..Len(cur)}

\* C1: an Add of an identity that is in flight returns the future of the
\* item already in the dedup map and changes nothing else: no new item, no
\* push, buffer and work channel untouched; and an item stays in the map for
\* as long as it is in flight, so every Add in that window is such a dupe.
DedupStep ==
    (lastSquash' # NoSquash /\ inFlight[lastSquash'.id] # None) =>
        /\ lastSquash'.isKnown
        /\ lastSquash'.item = inFlight[lastSquash'.id]
        /\ <<items, inFlight, pushing, buf, bufPc, work, cur>>' =
           <<items, inFlight, pushing, buf, bufPc, work, cur>>

InFlightKnown == \A i \in InFlightItems : inFlight[items[i].id] = i

C1_DedupSameFuture == [](InFlightKnown) /\ [][DedupStep]_vars

\* A dupe Add has just returned the future of an item the FlushFunc is busy with.
C1_Witness ==
    /\ lastSquash.isKnown
    /\ wpc = "flush"
    /\ PosIn(cur, lastSquash.item) # 0

\* The items whose future yields an index, and the indices.
OkItems == {i \in Created : items[i].closed /\ FutureValue(items[i])[2] = Nil}

OkIndices == {FutureValue(items[i])[1] : i \in OkItems}

\* The entries the FlushFunc integrated: those of the batches it returned nil for.
Integrated == {i \in Created : BatchOf(i) # 0 /\ flushed[BatchOf(i)].err = Nil}

\* C2: the indices the futures return are 0..n-1 without gap, no two items
\* share one, only integrated entries get one, and once doFlush is through
\* with a batch n is the number of entries integrated.
C2_Density ==
    /\ OkIndices = 0..(Cardinality(OkItems) - 1)
    /\ \A i, j \in OkItems : i # j => FutureValue(items[i]) # FutureValue(items[j])
    /\ OkItems \subseteq Integrated
    /\ wpc # "notify" => OkItems = Integrated

\* Two batches have been integrated and all their futures resolved.
C2_Witness ==
    /\ Cardinality(OkItems) = 3
    /\ \E b1, b2 \in 1..Len(flushed) : b1 # b2 /\ flushed[b1].err = Nil /\ flushed[b2].err = Nil
    /\ wpc = "select"

\* C3: when the FlushFunc returned an error for a batch, every entry of the
\* batch that has been notified yields (0, that error), and all of them have
\* been notified when doFlush returns.
C3_BatchFailure ==
    \A b \in 1..Len(flushed) :
        flushed[b].err \notin {Nil, "running"} =>
            \A p \in 1..Len(flushed[b].entries) :
                LET i == flushed[b].entries[p] IN
                /\ items[i].closed => FutureValue(items[i]) = <<0, flushed[b].err>>
                /\ FlushDone(b) => items[i].closed

\* A batch of two entries failed and doFlush has returned.
C3_Witness ==
    \E b \in 1..Len(flushed) :
        /\ flushed[b].err = ErrFlush
        /\ Len(flushed[b].entries) = 2
        /\ FlushDone(b)

\* C4: once doFlush has returned for a batch its entries are gone from the
\* dedup map; an Add of an identity that is not in the map makes a new item
\* with an unresolved future, puts it in the map and pushes it; and of two
\* items with one identity the later one is flushed in a later batch.
ResubmitStep ==
    (lastSquash' # NoSquash /\ inFlight[lastSquash'.id] = None) =>
        /\ ~lastSquash'.isKnown
        /\ lastSquash'.item = Len(items) + 1
        /\ Len(items') = Len(items) + 1
        /\ items'[Len(items')] = newEntry(lastSquash'.id)
        /\ inFlight'[lastSquash'.id] = Len(items')
        /\ Len(items') \in pushing'

ClearedAfterFlush ==
    \A b \in 1..Len(flushed) :
        FlushDone(b) =>
            \A p \in 1..Len(flushed[b].entries) :
                inFlight[items[flushed[b].entries[p]].id] # flushed[b].entries[p]

LaterBatch ==
    \A i, j \in Created :
        (i < j /\ items[i].id = items[j].id /\ BatchOf(i) # 0 /\ BatchOf(j) # 0)
            => BatchOf(i) < BatchOf(j)

C5_EventuallyResolved ==
    \A i \in 1..MaxItems :
        (i <= Len(items)) ~> (cancelled \/ (i <= Len(items) /\ items[i].closed))

\* A future has resolved in a run whose context was never cancelled.
C5_Witness == ~cancelled /\ \E i \in Created : items[i].closed

\* Item i waits: buffered, or emitted and not yet handed to the FlushFunc.
Waiting(i) ==
    \/ \E p \in 1..Len(buf) : buf[p] = i
    \/ \E p \in 1..Len(Flatten(work)) : Flatten(work)[p] = i

\* C6: an entry that waits when the context is cancelled gets its future
\* resolved and its identity removed from the dedup map.
C6_CancelResolves ==
    \A i \in 1..MaxItems :
        (cancelled /\ i <= Len(items) /\ Waiting(i))
            ~> (i <= Len(items) /\ items[i].closed /\ inFlight[items[i].id] # i)

\* An Add call inside Push that can go on only when the FlushFunc returns
\* (or gives up when the push times out).
BlockedOnFlush(i) ==
    /\ i \in pushing
    /\ wpc = "flush"
    /\ ~ENABLED Push(i)
    /\ ~ENABLED toWork

\* C7, as claimed: no Add call ever waits for a FlushFunc invocation.
C7_NeverBlocksOnFlush == \A i \in pushing : ~BlockedOnFlush(i)

\* C7, amended: while the work channel has room the FlushFunc does not hold
\* up an Add call: its Push is taken, or the buffer hands its batch to the
\* work channel without waiting for the worker.
C7_DecoupledWhileRoom ==
    \A i \in pushing :
        (wpc = "flush" /\ Len(work) < WorkCap) => (ENABLED Push(i) \/ ENABLED toWork)

\* An Add call is inside Push while the FlushFunc runs and the buffer emits
\* the next batch.
C7_Witness ==
    /\ pushing # {}
    /\ wpc = "flush"
    /\ bufPc = "flush"
    /\ work = <<>>

\* C8: an entry whose Add returned before another Add started comes before
\* that one in the order in which entries reach the FlushFunc: earlier in
\* the same batch, or in an earlier batch.
C8_SubmissionOrder ==
    \A j \in Created : \A i \in addedBefore[j] :
        /\ (PosIn(Pipeline, i) # 0 /\ PosIn(Pipeline, j) # 0)
               => PosIn(Pipeline, i) < PosIn(Pipeline, j)
        /\ BatchOf(j) # 0 =>
               \/ PosIn(Pipeline, i) = 0
               \/ /\ BatchOf(i) # 0
                  /\ BatchOf(i) <= BatchOf(j)
                  /\ BatchOf(i) = BatchOf(j) =>
                         PosIn(flushed[BatchOf(i)].entries, i) < PosIn(flushed[BatchOf(j)].entries, j)

\* Two Add calls, one after the other, ended up in one batch.
C8_Witness ==
    \E j \in Created : \E i \in addedBefore[j] :
        BatchOf(i) # 0 /\ BatchOf(i) = BatchOf(j)

\* C9: all calls of a future return one value, the one notify sent, and
\* together they receive from the channel once.
C9_SingleShot ==
    \A i \in Created :
        seen[i].calls > 0 =>
            /\ Cardinality(seen[i].vals) = 1
            /\ seen[i].recvs = 1
            /\ items[i].once # <<>>
            /\ seen[i].vals = {items[i].once[1]}
            /\ items[i].closed /\ items[i].c = <<>>
            /\ items[i].once[1] # Panic

\* A future was called twice, and an Add has just returned it to a dupe.
C9_Witness ==
    \E i \in Created :
        /\ seen[i].calls = MaxCalls
        /\ lastSquash.isKnown
        /\ lastSquash.item = i

\* ------------------------------------------------------------------------
\* Properties of Migrate
\* ------------------------------------------------------------------------
\* C10: when storage.IntegratedSize fails or reports more entries than the
\* source has, Migrate returns an error having called nothing else: no
\* getEntries, no SetEntryBundle, no AwaitIntegration, and no goroutine
\* started.
C10_Precondition ==
    (mpc # "init" /\ (targetSize = SizeFailed \/ targetSize > sourceSize)) =>
        /\ mpc = "returned"
        /\ mret \notin {"none", "nil"}
        /\ calls = {"IntegratedSize"}
        /\ ppc = "off"
        /\ await = "off"
        /\ \A w \in Workers : wst[w] = "off"
        /\ todo = <<>>
        /\ \A b \in DOMAIN stored : stored[b] = NotStored

\* Migrate has returned because the target is larger than the source.
C10_Witness ==
    /\ mpc = "returned"
    /\ targetSize # SizeFailed
    /\ targetSize > sourceSize

\* The bundles of the entries [targetSize, sourceSize), as populateWork
\* enumerates them.
WorkRange == Range(targetSize, sourceSize - targetSize, sourceSize)

\* Every worker that was started has returned nil.
WorkersDone == \A w \in Workers : wst[w] \in {"off", "done"}

\* C11: Migrate returns nil only if AwaitIntegration returned a root equal
\* to sourceRoot; when the copy and the integration are through and the
\* roots differ, Migrate returns the mismatch error, and every bundle has
\* been copied once with nothing left to copy again.
C11_Fidelity ==
    mpc = "returned" =>
        /\ mret = "nil" => (await = "done" /\ root = sourceRoot)
        /\ (await = "done" /\ WorkersDone /\ root # sourceRoot) =>
               /\ mret = "root mismatch"
               /\ bundlesMigrated = Len(WorkRange)
               /\ pleft = <<>> /\ todo = <<>>
               /\ \A w \in Workers :
                      ~ENABLED (WorkerNext(w) \/ FetchFails(w) \/ StoreFails(w) \/ Copied(w))

\* Migrate has copied the four bundles of a log and returned the mismatch.
C11_Witness ==
    /\ mpc = "returned"
    /\ mret = "root mismatch"
    /\ bundlesMigrated = 4

\* C12: when Migrate returns the root mismatch, the integrated size of the
\* target is still the one Migrate found at the start.
C12_MismatchNotPublished ==
    (mpc = "returned" /\ mret = "root mismatch") => integrated = targetSize

\* The number of times bundle index i was received from the todo channel,
\* and the number of times it is waiting in it.
TimesTaken(i) ==
    Cardinality({wq \in Workers \X (1..MaxBundles) :
                    wq[2] <= Len(took[wq[1]]) /\ took[wq[1]][wq[2]] = i})
TimesQueued(i) == Cardinality({q \in 1..Len(todo) : todo[q].Index = i})

\* C13: the bundles of [targetSize, sourceSize) are put on the todo channel
\* in the order of the range, each once, and each one sent is in the channel
\* or was taken by one worker once; when every worker has returned nil all
\* of them were sent and taken; Migrate returns nil only with every bundle
\* of the range stored; and with an empty target and no failed call the
\* number of stored bundles is ceil(sourceSize/256): 4 for 1000 entries.
C13_Coverage ==
    mpc \in {"wait", "returned"} /\ ppc # "off" =>
        /\ sent \o pleft = WorkRange
        /\ \A p, q \in 1..Len(sent) : p # q => sent[p].Index # sent[q].Index
        /\ \A p \in 1..Len(sent) : TimesTaken(sent[p].Index) + TimesQueued(sent[p].Index) = 1
        /\ \A w \in Workers : \A q \in 1..Len(took[w]) :
               \E p \in 1..Len(sent) : sent[p].Index = took[w][q]
        /\ (WorkersDone /\ \E w \in Workers : wst[w] = "done") =>
               \A p \in 1..Len(WorkRange) : TimesTaken(WorkRange[p].Index) = 1
        /\ mret = "nil" =>
               \A p \in 1..Len(WorkRange) :
                   stored[WorkRange[p].Index] = WorkRange[p].Partial
        /\ (mret = "nil" /\ targetSize = 0 /\ ~erred) =>
               /\ bundlesMigrated = (sourceSize + EntryBundleWidth - 1) \div EntryBundleWidth
               /\ sourceSize = 1000 => bundlesMigrated = 4

\* Two workers have copied the 1000 entries of a log into an empty target,
\* each of them some of the bundles, and Migrate has returned nil.
C13_Witness ==
    /\ mpc = "returned"
    /\ mret = "nil"
    /\ sourceSize = 1000
    /\ targetSize = 0
    /\ ~erred
    /\ \A w \in Workers : took[w] # <<>>

\* C14: once a worker has given up on a bundle, Migrate returns an error.
C14_ReturnsOnError ==
    (\E w \in Workers : wst[w] = "failed") ~> (mpc = "returned" /\ mret # "nil")

\* n / 256^k, rounded down.
RECURSIVE DivPow256(_, _)
DivPow256(n, k) == IF k = 0 \/ n = 0 THEN n ELSE DivPow256(n \div 256, k - 1)

\* C15 as stated: partialTileSize(L, I, N) is 0 exactly when I < N / 256^(L+1).
C15_ZeroIff ==
    (lpc = "partialTileSize" /\ lHigh = 0) =>
        (lOut[1] = 0 <=> lIndex < DivPow256(lSize, lLevel + 1))

\* C15, amended: for L < 2^61, partialTileSize(L, I, N) is 0 when I < N / 256^(L+1) and
\* floor(N / 256^L) mod 256 otherwise, so that it is 0 exactly when
\* I < N / 256^(L+1) or floor(N / 256^L) is a multiple of 256.
C15_ZeroIfFull ==
    (lpc = "partialTileSize" /\ lHigh = 0) =>
        LET full == DivPow256(lSize, lLevel + 1)
            atLevel == DivPow256(lSize, lLevel)
        IN  /\ lIndex < full => lOut[1] = 0
            /\ lIndex >= full => lOut[1] = atLevel % 256
            /\ lOut[1] = 0 <=> (lIndex < full \/ atLevel % 256 = 0)

\* partialTileSize has returned 0 for a tile past the full ones of a log
\* that is not empty.
C15_Witness ==
    /\ lpc = "partialTileSize"
    /\ lHigh = 0
    /\ lOut[1] = 0
    /\ lSize > 0
    /\ lIndex >= DivPow256(lSize, lLevel + 1)
    /\ DivPow256(lSize, lLevel) > 0

\* C16: the tile address NodeCoordsToTileAddress returns gives the tree
\* coordinates back: treeLevel = 8*tileLevel + nodeLevel and treeIndex =
\* tileIndex * 2^(8 - nodeLevel) + nodeIndex, with nodeLevel in 0..7 and
\* nodeIndex < 2^(8 - nodeLevel).
C16_RoundTrip ==
    lpc = "NodeCoordsToTileAddress" =>
        LET tileLevel == lOut[1]
            tileIndex == lOut[2]
            nodeLevel == lOut[3]
            nodeIndex == lOut[4]
        IN  /\ 8 * tileLevel + nodeLevel = lLevel
            /\ tileIndex * Pow(2, 8 - nodeLevel) + nodeIndex = lIndex
            /\ nodeLevel \in 0..7
            /\ nodeIndex >= 0
            /\ nodeIndex < Pow(2, 8 - nodeLevel)

\* A node above the lowest row of a tile that is not the first of its level,
\* and not the first node of its row.
C16_Witness ==
    /\ lpc = "NodeCoordsToTileAddress"
    /\ lLevel > 8
    /\ lOut[3] > 0
    /\ lOut[2] > 0
    /\ lOut[4] > 0

\* C17: a response to GET /tile/{level}/{index} carries the immutable
\* Cache-Control header only for a full tile, never for a .p{partial} request.
C17_ImmutableOnlyFull ==
    hpc = "tile" =>
        (CacheImmutable \in hresp.header => hreq.path.partial = 0)

\* The names of the headers of the response.
HeaderNames == {h[1] : h \in hresp.header}

\* C18: POST /add answers 200 with the index in decimal on success, 400 to
\* a request it cannot read, 503 with Retry-After when the log is
\* overloaded, and 500 to any other failure.
C18_AddStatus ==
    hpc = "add" =>
        /\ hreq.bodyErr => hresp.status = StatusBadRequest
        /\ (~hreq.bodyErr /\ hres.err = Nil) =>
               (hresp.status = StatusOK /\ hresp.body = Sprintf_d(hres.idx))
        /\ (~hreq.bodyErr /\ hres.err = "overloaded") =>
               (hresp.status = StatusServiceUnavailable /\ "Retry-After" \in HeaderNames)
        /\ (~hreq.bodyErr /\ hres.err = "other") =>
               hresp.status = StatusInternalServerError

\* C19: the read handlers answer 400 to a path that does not parse, without
\* calling the storage, 500 when the storage returns an error, 404 when it
\* returns nil, and otherwise 200 with the bytes it returned; GET /checkpoint
\* has no path to parse.
C19_PassThrough ==
    hpc \in {"checkpoint", "tile", "entries"} =>
        LET parseErr == hpc # "checkpoint" /\ hreq.path.malformed
        IN  IF parseErr
            THEN hresp.status = StatusBadRequest /\ hres = NoResult
            ELSE IF hres.err
            THEN hresp.status = StatusInternalServerError /\ hresp.body = <<>>
            ELSE IF hres.data = NilBytes
            THEN hresp.status = StatusNotFound /\ hresp.body = <<>>
            ELSE hresp.status = StatusOK /\ hresp.body = hres.data.bytes

\* GET /checkpoint on a log without a checkpoint was answered 404.
C19_Witness ==
    /\ hpc = "checkpoint"
    /\ ~hres.err
    /\ hres.data = NilBytes
    /\ hresp.status = StatusNotFound

\* The number of times backend b was chosen by the calls from..to.
TimesChosen(b, from, to) == Cardinality({p \in from..to : rrLog[p] = b})

\* C20: next() hands out the backends in cyclic order, whatever the
\* interleaving of its callers: the n-th call gets backend (n-1) mod len,
\* any k*len consecutive calls choose each backend k times, and rr.idx stays
\* in 0..len-1.
C20_RoundRobin ==
    rrKind # "none" =>
        /\ rrIdx \in 0..(rrLen - 1)
        /\ \A p \in 1..Len(rrLog) : rrLog[p] = backendAt((p - 1) % rrLen)
        /\ \A from \in 1..Len(rrLog), k \in 1..MaxNextCalls :
               from + k * rrLen - 1 <= Len(rrLog) =>
                   \A b \in 1..rrLen : TimesChosen(b, from, from + k * rrLen - 1) = k
        /\ \A c \in Callers : rrPc[c] \in {"update", "unlock"} => rrF[c] \in 1..rrLen

\* Two callers have made twice as many calls as there are backends, three
\* of them, each caller some of the calls.
C20_Witness ==
    /\ rrLen = 3
    /\ Len(rrLog) = 6
    /\ \A c \in Callers : rrF[c] # None
    /\ \A c \in Callers : rrPc[c] = "idle"


\* ------------------------------------------------------------------------
\* httpLeafWriter.Write, the hammer's client of POST /add
\* ------------------------------------------------------------------------
StatusBadGateway == 502
StatusGatewayTimeout == 504
ErrRetry == "retry"
NewLine == 10

\* bytes.Split(body, []byte("\n"))[0]: the body up to its first newline.
RECURSIVE firstPart(_)
firstPart(body) ==
    IF body = <<>> \/ Head(body) = NewLine THEN <<>>
    ELSE <<Head(body)>> \o firstPart(Tail(body))

\* The value of a sequence of decimal digits in the given base.
RECURSIVE digitsValue(_, _)
digitsValue(s, base) ==
    IF s = <<>> THEN 0
    ELSE digitsValue(SubSeq(s, 1, Len(s) - 1), base) * base + (s[Len(s)] - 48)

\* Variant: the text is parsed as an octal number.
ParseUintOctal(s) ==
    IF s = <<>> \/ \E p \in 1..Len(s) : s[p] \notin 48..55
    THEN [err |-> TRUE, val |-> 0]
    ELSE [err |-> FALSE, val |-> digitsValue(s, 8)]

\* strconv.ParseUint(string(s), 10, 64): digits only, at least one.  (The
\* texts here are short, so the value fits a uint64.)
ParseUint(s) ==
    IF s = <<>> \/ \E p \in 1..Len(s) : s[p] \notin 48..57
    THEN [err |-> TRUE, val |-> 0]
    ELSE [err |-> FALSE, val |-> digitsValue(s, 10)]

\* What Write returns for the response resp of hc.Do.
writeResult(resp) ==
    IF resp.status = StatusOK
    THEN IF resp.method # "POST"
         THEN [index |-> 0, err |-> "write leaf was redirected"]
         ELSE IF ParseUint(firstPart(resp.body)).err
         THEN [index |-> 0, err |-> "write leaf failed to parse response"]
         ELSE [index |-> ParseUint(firstPart(resp.body)).val, err |-> Nil]
    ELSE IF resp.status \in {StatusServiceUnavailable, StatusBadGateway, StatusGatewayTimeout}
    THEN [index |-> 0, err |-> ErrRetry]
    ELSE [index |-> 0, err |-> "write leaf was not OK"]

\* Responses that do not come from the POST /add handler: of a proxy in
\* front of the log, or of the place a redirect led to (hc follows
\* redirects, and resp.Request is then the last request made).
OtherStatuses ==
    {StatusOK, StatusBadRequest, StatusNotFound, StatusInternalServerError,
     StatusServiceUnavailable, StatusBadGateway, StatusGatewayTimeout}
OtherBodies == {<<>>, Sprintf_d(7), <<49, NewLine, 50>>, <<45, 49>>, ErrorText}
OtherResponses ==
    [from : {"elsewhere"}, status : OtherStatuses, method : {"POST", "GET"}, body : OtherBodies]

\* Write whose request reaches the POST /add handler: the handler answers
\* as in PostAdd, and Write reads the response.
WriteServed(req, res) ==
    /\ hpc' = "add"
    /\ hreq' = req
    /\ hres' = IF req.bodyErr THEN NoResult ELSE res
    /\ hresp' = addResponse(req, res)
    /\ cpc' = "Write"
    /\ cresp' = [from |-> "log", status |-> addResponse(req, res).status,
                 method |-> "POST", body |-> addResponse(req, res).body]
    /\ cout' = writeResult([status |-> addResponse(req, res).status,
                            method |-> "POST", body |-> addResponse(req, res).body])
    /\ UNCHANGED nonHttpClient

\* Write whose request is answered by something else.
WriteElsewhere(resp) ==
    /\ cpc' = "Write"
    /\ cresp' = resp
    /\ cout' = writeResult(resp)
    /\ UNCHANGED nonClient

\* Write whose hc.Do, or the reading of the body, fails.
WriteFails ==
    /\ cpc' = "Write"
    /\ cresp' = NoReply
    /\ cout' = [index |-> 0, err |-> "failed to write leaf"]
    /\ UNCHANGED nonClient

ClientInit ==
    /\ QueueInit
    /\ MigrateIdle
    /\ LayoutIdle
    /\ HttpIdle
    /\ RRIdle
    /\ ClientIdle

ClientNext ==
    \/ \E req \in AddRequests, res \in AddResults : WriteServed(req, res)
    \/ \E resp \in OtherResponses : WriteElsewhere(resp)
    \/ WriteFails

ClientSpec == ClientInit /\ [][ClientNext]_vars

\* ------------------------------------------------------------------------
\* Properties of the queue's dedup map and worker
\* ------------------------------------------------------------------------
\* The identities of a sequence of items, and whether they are all distinct.
IdsOf(b) == [p \in 1..Len(b) |-> items[b[p]].id]

Distinct(q) == \A p1, p2 \in 1..Len(q) : p1 # p2 => q[p1] # q[p2]

\* The batches that are outstanding: the batch doFlush holds, the batches in
\* the work channel, and the batch the buffer is collecting.
Outstanding == cur \o Flatten(work) \o buf

\* The identities in the dedup map.
MapIds == {k \in Ids : inFlight[k] # None}

\* C21: at most one item per identity is not yet notified, and that item is
\* the one in the dedup map (an entry is deleted only once its item is
\* notified); no batch passed to the FlushFunc holds an identity twice, and
\* the outstanding batches share no identity.
C21_OnePending ==
    /\ \A i, j \in Created :
           (i # j /\ items[i].id = items[j].id) => (items[i].closed \/ items[j].closed)
    /\ \A i \in Created : ~items[i].closed => inFlight[items[i].id] = i
    /\ \A b \in 1..Len(flushed) : Distinct(IdsOf(flushed[b].entries))
    /\ Distinct(IdsOf(Outstanding))

\* An identity was added again after its first item was notified, and the
\* new item is in the batch the FlushFunc is running on, with another batch
\* behind it.
C21_Witness ==
    \E i, j \in Created :
        /\ i < j
        /\ items[i].id = items[j].id
        /\ items[i].closed
        /\ wpc = "flush"
        /\ PosIn(cur, j) # 0
        /\ buf # <<>>

\* C22: the dedup map holds no stale entry: every identity in it belongs to
\* an item that is in flight (inside Push, buffered, in an emitted batch, or
\* in the batch being flushed), and no item whose future is resolved is left
\* in it.
C22_NoStaleEntries ==
    \A k \in MapIds :
        /\ inFlight[k] \in InFlightItems
        /\ ~items[inFlight[k]].closed

\* C23: the dedup map holds at most maxSize identities plus those of one
\* in-flight batch.
C23_MapBound == Cardinality(MapIds) <= maxSize + maxSize

\* C24: at most one FlushFunc runs at a time, it is the one of the batch
\* taken last, and the batches reach the FlushFunc in the order in which the
\* buffer emitted them: the sequence of batches flushed or waiting in the
\* work channel only grows at its end.
Emitted == FlushedBatches \o work

Running == {b \in 1..Len(flushed) : flushed[b].err = "running"}

C24_OneFlushInOrder ==
    /\ [](/\ Cardinality(Running) <= 1
          /\ Running \subseteq {Len(flushed)}
          /\ (Running # {}) = (wpc \in {"flush", "notify"} /\ ~(wpc = "notify" /\ werr # "running")))
    /\ [][/\ Len(Emitted') >= Len(Emitted)
          /\ SubSeq(Emitted', 1, Len(Emitted)) = Emitted]_vars

\* The FlushFunc runs on its second batch while a third waits in the work
\* channel.
C24_Witness ==
    /\ Len(flushed) >= 2
    /\ wpc = "flush"
    /\ work # <<>>

\* C25: after a FlushFunc that returned nil, the future of each of its
\* entries returns the index the FlushFunc assigned to the entry and a nil
\* error; a dupe holds the same future.  If the FlushFunc assigned none, the
\* future panics.
C25_IndexOrPanic ==
    \A i \in Created :
        (BatchOf(i) # 0 /\ flushed[BatchOf(i)].err = Nil /\ seen[i].calls > 0) =>
            IF items[i].index = NoIndex
            THEN seen[i].vals = {Panic}
            ELSE seen[i].vals = {<<items[i].index, Nil>>}

\* One future returned its index and another, of a batch the FlushFunc left
\* without indices, panicked.
C25_Witness ==
    \E i, j \in Created :
        /\ seen[i].vals = {Panic}
        /\ flushed[BatchOf(i)].err = Nil
        /\ seen[j].vals = {<<items[j].index, Nil>>}
        /\ items[j].index # NoIndex

\* C26: notify is called at most once on a queueItem: nothing is ever sent
\* on a closed channel, and a channel never holds more than the one value.
C26_NotifyOnce ==
    /\ ~panicked
    /\ \A i \in Created :
           /\ Len(items[i].c) <= ItemChanCap
           /\ items[i].closed = (items[i].c # <<>>)

\* An item was notified of a failed Push, an Add of its identity returned
\* the same future, and another item was notified by doFlush.
C26_Witness ==
    /\ lastSquash.isKnown
    /\ items[lastSquash.item].closed
    /\ BatchOf(lastSquash.item) = 0
    /\ \E j \in Created : items[j].closed /\ BatchOf(j) # 0

\* C27: q.inFlightMu is held only by doFlush's notification loop, whose
\* sends never block; it is free while the FlushFunc runs and while an Add
\* is inside Push, so an Add can take it.
C27_MutexNotHeldBlocking ==
    /\ (mu = "worker") = (wpc = "notify")
    /\ wpc # "notify" => mu = "free"
    /\ pushing # {} => mu # "add"
    /\ wpc = "notify" => ENABLED NotifyNext
    /\ (wpc = "flush" /\ Len(items) < MaxItems) => \A k \in Ids : ENABLED Add(k)

\* The FlushFunc runs while one Add is inside Push.
C27_Witness ==
    /\ wpc = "flush"
    /\ pushing # {}
    /\ Len(items) < MaxItems

\* ------------------------------------------------------------------------
\* Properties of migrateWorker's retries
\* ------------------------------------------------------------------------
\* The bundles stored so far.
StoredBundles == {b \in DOMAIN stored : stored[b] # NotStored}

\* No bundle is at more than Attempts attempts, bundlesMigrated counts the
\* stored bundles, and a Migrate that returned after a worker gave up
\* returned the error.
AttemptsBounded ==
    /\ \A w \in Workers : watt[w] <= Attempts
    /\ bundlesMigrated = Cardinality(StoredBundles)
    /\ (mpc = "returned" /\ \E w \in Workers : wst[w] = "failed") => mret = "migration failed"

\* The steps of a worker: it gives up only at attempt Attempts and then
\* takes no more work; SetEntryBundle is called only after the getEntries
\* of the same attempt, and a failed SetEntryBundle leads to getEntries
\* again; bundlesMigrated grows by one, with the store that succeeded.
AttemptStep ==
    /\ \A w \in Workers :
           /\ wst[w] = "failed" => (wst'[w] = "failed" /\ took'[w] = took[w])
           /\ (wst'[w] = "failed" /\ wst[w] # "failed") => watt[w] = Attempts
           /\ (wst'[w] = "store" /\ wst[w] # "store") => (wst[w] = "try" /\ watt'[w] = watt[w])
           /\ (wst[w] = "store" /\ watt'[w] # watt[w]) => wst'[w] = "try"
    /\ bundlesMigrated' # bundlesMigrated =>
           /\ bundlesMigrated' = bundlesMigrated + 1
           /\ \E w \in Workers :
                  /\ wst[w] = "store" /\ wst'[w] = "range"
                  /\ stored[wb[w].Index] = NotStored
                  /\ stored'[wb[w].Index] = wb[w].Partial

RetryDiscipline == [](AttemptsBounded) /\ [][AttemptStep]_vars

\* C28: a bundle gets at most 10 attempts, each a fetch followed by a store;
\* a failed store leads to a new fetch; after the 10th failure the worker
\* takes no more work and returns the error, and Migrate fails with it;
\* bundlesMigrated grows by one per bundle, on the successful attempt.
C28_BoundedRetry ==
    /\ RetryDiscipline
    /\ (\E w \in Workers : wst[w] = "failed")
           ~> (mpc = "returned" /\ mret = "migration failed")

\* C29: only transient errors are retried: once an attempt has failed with a
\* permanent error the worker has returned it, with no further attempt.
C29_OnlyTransientRetried ==
    \A w \in Workers : wlast[w] = "permanent" => wst[w] = "failed"

\* A worker calls getEntries: the attempt goes on to SetEntryBundle, or it
\* fails and the next attempt or the worker's return follows.
GetEntriesStep(w) ==
    /\ wst[w] = "try"
    /\ \/ wst'[w] = "store"
       \/ wst'[w] = "failed"
       \/ watt'[w] = watt[w] + 1

\* C30: a worker that is between two attempts when ctx is cancelled makes
\* no further attempt.
C30_NoAttemptAfterCancel ==
    [][\A w \in Workers :
           (mcancelled /\ wst[w] = "try" /\ watt[w] > 1) => ~GetEntriesStep(w)]_vars

\* ------------------------------------------------------------------------
\* Properties of Migrate's work set, termination and progress figures
\* ------------------------------------------------------------------------
\* The bundles populateWork sends, sent or not yet.
WorkSet == sent \o pleft

\* The bundle that holds the target's last entries, and the partial the
\* source has for it.
TailIndex == targetSize \div EntryBundleWidth

SourcePartial(index) ==
    IF index < sourceSize \div EntryBundleWidth THEN 0 ELSE sourceSize % EntryBundleWidth

\* C31 as stated: whenever targetSize is not a multiple of 256 the work set
\* includes the bundle targetSize/256.
C31_TailBundleInWorkSet ==
    (ppc # "off" /\ targetSize % EntryBundleWidth # 0) =>
        \E p \in 1..Len(WorkSet) : WorkSet[p].Index = TailIndex

\* C31, amended: when targetSize is not a multiple of 256 and the source has
\* more entries than the target, the first bundle of the work set is the
\* bundle targetSize/256 with the source's partial; every store of it is
\* with that partial, and Migrate returns nil only with it stored.
C31_TailBundleCopied ==
    (ppc # "off" /\ targetSize % EntryBundleWidth # 0 /\ targetSize < sourceSize) =>
        /\ WorkSet # <<>>
        /\ WorkSet[1] = [Index |-> TailIndex, Partial |-> SourcePartial(TailIndex)]
        /\ stored[TailIndex] \in {NotStored, SourcePartial(TailIndex)}
        /\ mret = "nil" => stored[TailIndex] = SourcePartial(TailIndex)

\* A target of 232 entries was migrated to the source's 1000: bundle 0 was
\* stored again, as a full bundle.
C31_Witness ==
    /\ mpc = "returned"
    /\ mret = "nil"
    /\ targetSize % EntryBundleWidth # 0
    /\ targetSize < sourceSize
    /\ stored[TailIndex] = 0
    /\ bundlesMigrated = MaxBundles

\* Migrate has come to an end without a goroutine of its errgroup left:
\* populateWork has sent everything and closed the channel, the workers
\* have returned nil.
CopyingDone ==
    /\ mpc = "returned"
    /\ ppc = "closed" /\ pleft = <<>> /\ todo = <<>>
    /\ WorkersDone
    /\ sent = WorkRange

\* A call that makes the migration fail: a worker used up its attempts,
\* AwaitIntegration returned an error, or the sizes did not allow a start.
GaveUp ==
    \/ \E w \in Workers : wst[w] = "failed"
    \/ await = "failed"
    \/ (mpc = "returned" /\ ppc = "off")

\* C32: unless a worker runs out of attempts or AwaitIntegration fails,
\* populateWork sends every bundle and closes the channel, every worker
\* returns nil and Migrate returns.
C32_SuccessPath == <>(GaveUp \/ CopyingDone)

\* Migrate has returned nil after both workers copied bundles, with failed
\* attempts among them.
C32_Witness ==
    /\ CopyingDone
    /\ mret = "nil"
    /\ erred
    /\ numWorkers = MaxWorkers
    /\ \A w \in Workers : took[w] # <<>>

\* C33: when Migrate has returned, none of its goroutines is left:
\* populateWork is not sending, no worker is at a bundle, the stats loop
\* has ended and calls IntegratedSize no more.
C33_QuiescentAfterReturn ==
    mpc = "returned" =>
        /\ ppc \in {"off", "closed"}
        /\ \A w \in Workers : wst[w] \in {"off", "done", "failed"}
        /\ spc \in {"off", "returned"}
        /\ ~ENABLED StatsTick

\* C36: the stats goroutine's bundlesToMigrate is the number of bundles
\* populateWork sends; it is at least 1, bundlesMigrated never exceeds it
\* and equals it when Migrate returns nil.
C36_ProgressTotal ==
    spc # "off" =>
        /\ bundlesToMigrate = Len(WorkSet)
        /\ bundlesToMigrate >= 1
        /\ bundlesMigrated <= bundlesToMigrate
        /\ mret = "nil" => bundlesMigrated = bundlesToMigrate

\* ------------------------------------------------------------------------
\* partialTileSize by cases
\* ------------------------------------------------------------------------
\* logSize >> (level * 8) for the level partialTileSize was called with, the
\* shift being the number level * 8: floor(logSize / 256^level), which is 0
\* from level 8 on.
SizeAtLevel == IF lHigh > 0 THEN 0 ELSE DivPow256(lSize, lLevel)

\* The call's level is 8 or more.
LevelFrom8 == lHigh > 0 \/ lLevel >= 8

C35_IndexRoundTrip ==
    cpc = "Write" /\ cresp # NoReply =>
        /\ (cresp.from = "log" /\ ~hreq.bodyErr /\ hres.err = Nil) =>
               cout = [index |-> hres.idx, err |-> Nil]
        /\ cout.err = ErrRetry <=>
               cresp.status \in {StatusServiceUnavailable, StatusBadGateway, StatusGatewayTimeout}
        /\ cresp.status \notin {StatusOK, StatusServiceUnavailable, StatusBadGateway,
                                StatusGatewayTimeout} =>
               cout.err \notin {Nil, ErrRetry}
        /\ (cresp.status = StatusOK /\ cresp.method # "POST") => cout.err # Nil
        /\ cout.err # Nil => cout.index = 0

\* Write has returned the index 123 that the handler wrote for an add.
C35_Witness ==
    /\ cpc = "Write"
    /\ cresp.from = "log"
    /\ ~hreq.bodyErr
    /\ hres.err = Nil
    /\ hres.idx = 123
    /\ cout = [index |-> 123, err |-> Nil]

====
